---------------------------- MODULE Spec2Model ----------------------------
(***************************************************************************)
(* A model of the simple-life ecosystem simulation: the per-being update   *)
(* of src/src/being.rs, the mutation of src/src/genetics.rs and the tick   *)
(* loop of src/src/main.rs.                                                *)
(* main.rs also holds a copy of Being and Genetics of its own (lines       *)
(* 25-346) whose update_carnivore and new_random differ from being.rs and  *)
(* genetics.rs; the behaviours modelled are those of being.rs and          *)
(* genetics.rs.  Both copies return the clone of a captured prey as        *)
(* new_being and both return before the clamp on a capture.                *)
(*                                                                         *)
(* Numbers are fixed point.  The source computes positions in f64 and      *)
(* energies and traits in f32; here                                        *)
(*   a position is a whole number of PosScale-ths of a pixel,              *)
(*   a trait (speed, size, reproduction_rate, perception) is a whole       *)
(*     number of GeneScale-ths,                                            *)
(*   an energy is a whole number of EnergyScale-ths,                       *)
(* and every product or quotient of the source is computed exactly on      *)
(* these and rounded toward zero.  The f64 value NaN, which 0.0/0.0        *)
(* produces when a being stands exactly on its target, is the value NaN.   *)
(***************************************************************************)
EXTENDS Integers, Sequences, FiniteSets, TLC

\* ------------------------------------------------------------------ scales
PosScale == 10
GeneScale == 100
EnergyScale == 200000000

\* ------------------------------------------------------- program constants
\* WINDOW_SIZE = 800.0 pixels
WINDOW_SIZE == 800 * PosScale
\* BASE_BEING_SIZE = 10.0 pixels
BASE_BEING_SIZE == 10 * PosScale
MAX_BEINGS == 220
MAX_FOOD == 790
\* ENERGY_DECAY = 0.0000015 per unit of (size + speed): in energy units per
\* trait unit, 0.0000015 * EnergyScale / GeneScale
ENERGY_DECAY == (15 * (EnergyScale \div 10000000)) \div GeneScale
\* the length the two histories are trimmed to
HISTORY_CAP == 1000

\* ------------------------------------------------------------- arithmetic
\* The f64 NaN.
NaN == 0 - 1000000000

IsNaN(v) == v = NaN

\* a / b rounded toward zero, b > 0
TDiv(a, b) == IF a >= 0 THEN a \div b ELSE 0 - ((0 - a) \div b)

\* F(v), with v evaluated first
Strict(v, F(_)) == CHOOSE r \in {F(x) : x \in {v}} : TRUE

\* <<floor(a*b / c), (a*b) % c>> for a, b >= 0 and 0 < c < 2^28, without
\* forming a*b (which does not fit the 32-bit integers of TLC): b is taken two
\* bits at a time (the result for the higher bits is computed once).
RECURSIVE MulDivMod(_, _, _)
MulDivMod(a, b, c) ==
    IF b = 0 THEN <<0, 0>>
    ELSE CHOOSE r \in
           {LET d == b % 4
                t == (4 * h[2]) + (d * (a % c))
            IN  <<(4 * h[1]) + (d * (a \div c)) + (t \div c), t % c>> :
              h \in {MulDivMod(a, b \div 4, c)}} : TRUE

MulDiv(a, b, c) ==
    Strict(<<a, b, c>>, LAMBDA v : MulDivMod(v[1], v[2], v[3])[1])

\* a * num / den rounded toward zero, for a of either sign
Scale(a, num, den) ==
    IF a >= 0 THEN MulDiv(a, num, den) ELSE 0 - MulDiv(0 - a, num, den)

\* floor(sqrt(n)), n >= 0
RECURSIVE SqrtBetween(_, _, _)
SqrtBetween(n, lo, hi) ==
    IF lo >= hi THEN lo
    ELSE CHOOSE r \in
           {IF mid <= n \div mid THEN SqrtBetween(n, mid, hi)
            ELSE SqrtBetween(n, lo, mid - 1) :
              mid \in {(lo + hi + 1) \div 2}} : TRUE

ISqrt(n) ==
    CHOOSE r \in {IF v <= 0 THEN 0 ELSE SqrtBetween(v, 1, 46340) : v \in {n}} :
        TRUE

Max(a, b) == IF a >= b THEN a ELSE b
Min(a, b) == IF a <= b THEN a ELSE b

\* f64 addition: NaN is absorbing
FAdd(a, b) == IF IsNaN(a) \/ IsNaN(b) THEN NaN ELSE a + b

\* dx*dx + dy*dy
Dist2(ax, ay, bx, by) ==
    IF IsNaN(ax) \/ IsNaN(ay) \/ IsNaN(bx) \/ IsNaN(by) THEN NaN
    ELSE (bx - ax) * (bx - ax) + (by - ay) * (by - ay)

\* distance < r, for r >= 0 given as a numerator over a denominator
\* (sqrt(d2) < num/den  iff  d2 * den^2 < num^2; a NaN compares false)
DistLess(d2, num, den) ==
    /\ ~IsNaN(d2)
    /\ d2 < ((num * num) + (den * den) - 1) \div (den * den)

\* delta / distance * speed * (mult10 / 10), where distance = sqrt(d2): the
\* displacement along one axis toward the target, in position units.
\* speed * mult10 is the step in hundredths of a position unit.
\* 0.0 / 0.0 is NaN.
Toward(delta, d2, speed, mult10) ==
    IF IsNaN(d2) THEN NaN
    ELSE IF d2 = 0 THEN NaN
    ELSE LET stepC == speed * mult10
             m == ISqrt(MulDiv(delta * delta, stepC * stepC, d2)) \div 100
         IN  IF delta >= 0 THEN m ELSE 0 - m

\* ------------------------------------------------------------------ beings
Herbivore == "Herbivore"
Carnivore == "Carnivore"
Omnivore == "Omnivore"
BeingType == {Herbivore, Carnivore, Omnivore}

\* Being::new: the lifespan of a species
max_age_of(t) ==
    IF t = Herbivore THEN 3000 ELSE IF t = Carnivore THEN 2000 ELSE 2500

\* Option<T>: None is the empty sequence, Some(v) is <<v>>
None == << >>
Some(v) == << v >>
IsSome(o) == Len(o) = 1

\* Being::size, in position units
size(b) == (BASE_BEING_SIZE * b.genetics.size) \div GeneScale

\* ---------------------------------------------------------------- genetics
clamp(v, lo, hi) == Max(lo, Min(v, hi))

\* a faulty mutate: the jitter without the clamp to the bound table
mutate_unclamped(g, f) ==
    [speed             |-> TDiv(g.speed * f[1], 100),
     size              |-> TDiv(g.size * f[2], 100),
     reproduction_rate |-> TDiv(g.reproduction_rate * f[3], 100),
     perception        |-> TDiv(g.perception * f[4], 100)]

\* Genetics::mutate; f is the four factors drawn from 0.9..1.1, in hundredths
mutate(g, f) ==
    [speed             |-> clamp(TDiv(g.speed * f[1], 100), 50, 300),
     size              |-> clamp(TDiv(g.size * f[2], 100), 50, 200),
     reproduction_rate |-> clamp(TDiv(g.reproduction_rate * f[3], 100), 10, 200),
     perception        |-> clamp(TDiv(g.perception * f[4], 100), 200, 3000)]

\* the bound table of mutate
InBoundTable(g) ==
    /\ g.speed >= 50 /\ g.speed <= 300
    /\ g.size >= 50 /\ g.size <= 200
    /\ g.reproduction_rate >= 10 /\ g.reproduction_rate <= 200
    /\ g.perception >= 200 /\ g.perception <= 3000

\* ------------------------------------------------------------ random draws
\* rng.random_range(-1.0..1.0) twice, in hundredths: the two draws of a
\* random movement
RandMove == {<<0 - 100, 0 - 100>>, <<99, 99>>}
\* the draws of replicate: rng.random_range(-20.0..20.0) pixels twice, in
\* position units, and the four rng.random_range(0.9..1.1) of mutate, in
\* hundredths
ReplicateDraw ==
    {[ox |-> 0 - (20 * PosScale), oy |-> 0 - (20 * PosScale),
      f |-> <<90, 109, 90, 109>>],
     [ox |-> (20 * PosScale) - 1, oy |-> (20 * PosScale) - 1,
      f |-> <<109, 90, 109, 90>>]}

\* ------------------------------------------------------------- behaviours
\* trait units of perception per position unit
PerceptionUnit == GeneScale \div PosScale

\* distance < perception_range * num / den
InPerception(d2, b, num, den) ==
    DistLess(d2, b.genetics.perception * num, PerceptionUnit * den)

\* the first index of 1..n whose key is minimal (Iterator::min_by_key and the
\* head of a stable sort return the first of several minima); 0 when n = 0
ArgMinFirst(n, key(_)) ==
    IF n = 0 THEN 0
    ELSE LET K == {key(i) : i \in 1..n}
             m == CHOOSE k \in K : \A k2 \in K : k <= k2
         IN  CHOOSE i \in 1..n : key(i) = m /\ \A j \in 1..(i - 1) : key(j) # m

\* ((dx * dx + dy * dy) * 1000.0) as i32, the key of the food search, for
\* positions given in 1/unit pixels: the cast drops what lies below a
\* thousandth of a squared pixel; a NaN casts to 0
FoodKeyAt(unit, b, f) ==
    LET d2 == Dist2(b.x, b.y, f.x, f.y)
        u2 == unit * unit
    IN  IF IsNaN(d2) THEN 0
        ELSE IF u2 <= 1000 THEN d2 * (1000 \div u2)
        ELSE d2 \div (u2 \div 1000)

FoodKey(b, f) == FoodKeyAt(PosScale, b, f)

\* foods.iter().enumerate().min_by_key(..): the snapshot index of the first
\* food of least key, 0 if there is none
NearestFoodAt(unit, b, foods) ==
    ArgMinFirst(Len(foods), LAMBDA i : FoodKeyAt(unit, b, foods[i]))

\* the snapshot index of the nearest food, 0 if there is none
NearestFood(b, foods) == NearestFoodAt(PosScale, b, foods)

\* Being::random_movement, scaled by mult10 / 10
Wander(b, rx, ry, mult10) ==
    [b EXCEPT !.x = FAdd(b.x, TDiv(rx * b.genetics.speed * mult10, 10000)),
              !.y = FAdd(b.y, TDiv(ry * b.genetics.speed * mult10, 10000))]

random_movement(b, rx, ry) == Wander(b, rx, ry, 10)

\* self.x += dx / distance * speed * mult, likewise y
MoveToward(b, tx, ty, mult10) ==
    LET d2 == Dist2(b.x, b.y, tx, ty)
        dx == IF IsNaN(d2) THEN NaN ELSE tx - b.x
        dy == IF IsNaN(d2) THEN NaN ELSE ty - b.y
    IN  [b EXCEPT !.x = FAdd(b.x, Toward(dx, d2, b.genetics.speed, mult10)),
                  !.y = FAdd(b.y, Toward(dy, d2, b.genetics.speed, mult10))]

\* distance < self.size() / 2.0 + 2.5
InEatingRadius(b, f) ==
    DistLess(Dist2(b.x, b.y, f.x, f.y), size(b) + 5 * PosScale, 2)

\* distance < self.size() / 2.0 + target.size() / 2.0
InCaptureRadius(b, t) ==
    DistLess(Dist2(b.x, b.y, t.x, t.y), size(b) + size(t), 2)

\* whether update_herbivore takes a random_movement branch
HerbivoreWanders(b, foods) ==
    LET idx == NearestFood(b, foods)
    IN  \/ idx = 0
        \/ ~InPerception(Dist2(b.x, b.y, foods[idx].x, foods[idx].y), b, 1, 1)

\* Being::update_herbivore: the being and the eaten food indices
update_herbivore(b, foods, rx, ry) ==
    Strict(NearestFood(b, foods), LAMBDA idx :
        IF HerbivoreWanders(b, foods)
        THEN [being |-> random_movement(b, rx, ry), eaten |-> << >>]
        ELSE LET f == foods[idx]
                 moved == MoveToward(b, f.x, f.y, 15)
             IN  IF InEatingRadius(b, f)
                 THEN [being |-> [moved EXCEPT !.energy = @ + f.energy],
                       eaten |-> << idx >>]
                 ELSE [being |-> moved, eaten |-> << >>])

\* the least index of C that is minimal under leq, 0 if C is empty
FirstMin(C, leq(_, _)) ==
    IF C = {} THEN 0
    ELSE CHOOSE i \in C : \A j \in C : leq(i, j) /\ (j < i => ~leq(j, i))

PairLeq(p, q) == p[1] < q[1] \/ (p[1] = q[1] /\ p[2] <= q[2])

\* dist * (1.1 - energy) of update_carnivore's sort, as the pair
\* <<floor(w), fraction of w>> with w in squared position units; pairs order
\* as the weights do
Weight(b, t) ==
    LET d2 == Dist2(b.x, b.y, t.x, t.y)
        m == (11 * (EnergyScale \div 10)) - t.energy
    IN  IF m >= 0 THEN MulDivMod(d2, m, EnergyScale)
        ELSE LET p == MulDivMod(d2, 0 - m, EnergyScale)
             IN  IF p[2] = 0 THEN <<0 - p[1], 0>>
                 ELSE <<(0 - p[1]) - 1, EnergyScale - p[2]>>

\* a faulty key: the squared distance alone
HuntKeyNearest(b, t) ==
    LET d2 == Dist2(b.x, b.y, t.x, t.y)
    IN  IF IsNaN(d2) THEN 0 ELSE d2 \div (PosScale * PosScale)

\* ((dx * dx + dy * dy) * (1.0 + b.energy as f64)) as i32, the key of the
\* omnivore's hunt, in squared pixels; a NaN casts to 0
HuntKey(b, t) ==
    LET d2 == Dist2(b.x, b.y, t.x, t.y)
        m == EnergyScale + t.energy
    IN  IF IsNaN(d2) THEN 0
        ELSE IF m >= 0 THEN MulDiv(d2, m, EnergyScale) \div (PosScale * PosScale)
        ELSE 0 - (MulDiv(d2, 0 - m, EnergyScale) \div (PosScale * PosScale))

\* Being::update, the filter on the snapshot: the indices a being looks at
filtered_beings(b, beings) ==
    IF b.being_type = Herbivore THEN {}
    ELSE IF b.being_type = Carnivore
    THEN {i \in 1..Len(beings) : beings[i].being_type \in {Herbivore, Omnivore}}
    ELSE {i \in 1..Len(beings) : beings[i].being_type # b.being_type}

\* update_carnivore: the candidates within 1.5 perception and below 1.1 size
potential_prey(b, beings) ==
    {i \in filtered_beings(b, beings) :
        /\ 10 * size(beings[i]) < 11 * size(b)
        /\ InPerception(Dist2(b.x, b.y, beings[i].x, beings[i].y), b, 3, 2)}

\* update_carnivore: potential_prey[0] after the sort, 0 if there is none
CarnivoreTarget(b, beings) ==
    FirstMin(potential_prey(b, beings),
             LAMBDA i, j : PairLeq(Weight(b, beings[i]), Weight(b, beings[j])))

\* Being::update_carnivore: the being and the snapshot index of the captured
\* prey (0: none)
update_carnivore(b, beings, rx, ry) ==
    Strict(CarnivoreTarget(b, beings), LAMBDA ti :
        IF ti = 0
        THEN [being |-> Wander(b, rx, ry, 15), captured |-> 0]
        ELSE LET t == beings[ti]
                 d2 == Dist2(b.x, b.y, t.x, t.y)
                 moved == MoveToward(b, t.x, t.y,
                                     IF InPerception(d2, b, 1, 1) THEN 35 ELSE 25)
             IN  IF InCaptureRadius(b, t)
                 THEN [being |-> [moved EXCEPT
                                    !.energy = @ + Scale(t.energy, 95, 100)],
                       captured |-> ti]
                 ELSE [being |-> moved, captured |-> 0])

\* update_omnivore: the target of the hunt branch, 0 if there is none
OmnivoreTarget(b, beings) ==
    FirstMin({i \in filtered_beings(b, beings) :
                 10 * size(beings[i]) < 9 * size(b)},
             LAMBDA i, j : HuntKey(b, beings[i]) <= HuntKey(b, beings[j]))

\* Being::update_omnivore: the being, the eaten food indices and the snapshot
\* index of the captured prey (0: none); hunt is rng.random_bool(0.7)
update_omnivore(b, beings, foods, hunt, rx, ry) ==
    Strict(<<OmnivoreTarget(b, beings), NearestFood(b, foods)>>, LAMBDA found :
    LET ti == found[1]
        fi == found[2]
        hunted ==
            IF ti = 0 THEN b
            ELSE IF InPerception(Dist2(b.x, b.y, beings[ti].x, beings[ti].y),
                                 b, 1, 1)
            THEN MoveToward(b, beings[ti].x, beings[ti].y, 22)
            ELSE b
        captures ==
            /\ ti # 0
            /\ InPerception(Dist2(b.x, b.y, beings[ti].x, beings[ti].y), b, 1, 1)
            /\ InCaptureRadius(b, beings[ti])
        reaches ==
            /\ fi # 0
            /\ InPerception(Dist2(b.x, b.y, foods[fi].x, foods[fi].y), b, 6, 5)
        eats == reaches /\ InEatingRadius(b, foods[fi])
        foraged ==
            IF ~reaches THEN b
            ELSE LET moved == MoveToward(b, foods[fi].x, foods[fi].y, 18)
                 IN  IF eats
                     THEN [moved EXCEPT
                             !.energy = @ + Scale(foods[fi].energy, 12, 10)]
                     ELSE moved
    IN  IF hunt
        THEN IF captures
             THEN [being |-> [hunted EXCEPT
                                !.energy = @ + Scale(beings[ti].energy, 85, 100)],
                   eaten |-> << >>, captured |-> ti]
             ELSE [being |-> Strict(hunted, LAMBDA h :
                                       random_movement(h, rx, ry)),
                   eaten |-> << >>, captured |-> 0]
        ELSE [being |-> Strict(foraged, LAMBDA f : random_movement(f, rx, ry)),
              eaten |-> IF eats THEN << fi >> ELSE << >>, captured |-> 0])

\* a faulty prologue: the age without the energy decay
prologue_without_decay(b) == [b EXCEPT !.age = @ + 1]

\* a faulty prologue: the energy decay without the age
prologue_without_age(b) ==
    [b EXCEPT !.energy = @ - ENERGY_DECAY * (b.genetics.size + b.genetics.speed)]

\* Being::update, the common prologue: age and energy decay
prologue(b) ==
    [b EXCEPT !.age = @ + 1,
              !.energy = @ - ENERGY_DECAY * (b.genetics.size + b.genetics.speed)]

\* Being::update, the clamp: x.max(0.0).min(WINDOW_SIZE - size); f64::max
\* returns the other operand for a NaN
ClampCoord(v, b) ==
    Min(IF IsNaN(v) THEN 0 ELSE Max(v, 0), WINDOW_SIZE - size(b))

ClampPosition(b) ==
    [b EXCEPT !.x = ClampCoord(b.x, b), !.y = ClampCoord(b.y, b)]

\* Being::can_replicate; roll is whether the draw fell below
\* base_chance * reproduction_rate (both outcomes have positive probability
\* for every species and every reproduction_rate > 0)
can_replicate(b, roll) ==
    /\ b.energy > 8 * (EnergyScale \div 10)
    /\ roll
    /\ b.age > 80
    /\ b.age < b.max_age

\* a faulty replicate: the parent keeps its energy
replicate_without_halving(b, ox, oy, f) ==
    [parent |-> b,
     child  |-> [b EXCEPT !.x = FAdd(b.x, ox),
                          !.y = FAdd(b.y, oy),
                          !.energy = TDiv(b.energy, 2),
                          !.genetics = mutate(b.genetics, f),
                          !.age = 0]]

\* Being::replicate: the parent after it and the child
replicate(b, ox, oy, f) ==
    [parent |-> [b EXCEPT !.energy = TDiv(b.energy, 2)],
     child  |-> [b EXCEPT !.x = FAdd(b.x, ox),
                          !.y = FAdd(b.y, oy),
                          !.energy = TDiv(b.energy, 2),
                          !.genetics = mutate(b.genetics, f),
                          !.age = 0]]

\* One element of `updates`: the updated being, the eaten food indices and
\* the new being of Being::update's result.  captured and replicated are not
\* in the source: they record which return of Being::update produced
\* new_being (the snapshot index of the prey of an early return, and whether
\* replicate ran).
Result(b, eaten, new_being, captured, replicated) ==
    [being |-> b, eaten_food_indices |-> eaten, new_being |-> new_being,
     captured |-> captured, replicated |-> replicated]

\* Being::update after the species branch did not return: clamp, then
\* reproduction, for every outcome of the draws of can_replicate and replicate
FinishUpdate(b, eaten) ==
    UNION {{Result(c, eaten, None, 0, FALSE)}
           \cup IF can_replicate(c, TRUE)
                THEN {Result(r.parent, eaten, Some(r.child), 0, TRUE) :
                        r \in {replicate(c, d.ox, d.oy, d.f) :
                                 d \in ReplicateDraw}}
                ELSE {} :
             c \in {ClampPosition(b)}}

\* the results of a carnivore's or an omnivore's branch o: the early return
\* of a capture, or the rest of update
AfterHunt(o, eaten, beings) ==
    IF o.captured # 0
    THEN {Result(o.being, eaten, Some(beings[o.captured]), o.captured, FALSE)}
    ELSE FinishUpdate(o.being, eaten)

\* Being::update of a being against the snapshots: every result the draws
\* allow
update(self, beings, foods) ==
    UNION {IF b.being_type = Herbivore
           THEN UNION {FinishUpdate(h.being, h.eaten) :
                         h \in {update_herbivore(b, foods, d[1], d[2]) :
                                  d \in IF HerbivoreWanders(b, foods)
                                        THEN RandMove ELSE {<<0, 0>>}}}
           ELSE IF b.being_type = Carnivore
           THEN UNION {AfterHunt(c, << >>, beings) :
                         c \in {update_carnivore(b, beings, d[1], d[2]) :
                                  d \in IF CarnivoreTarget(b, beings) = 0
                                        THEN RandMove ELSE {<<0, 0>>}}}
           ELSE UNION {AfterHunt(o, o.eaten, beings) :
                         o \in {update_omnivore(b, beings, foods, d[1],
                                                d[2][1], d[2][2]) :
                                  d \in BOOLEAN \X RandMove}} :
             b \in {prologue(self)}}

\* every vector of results for the beings lo..hi, in being order, given the
\* results of each being (halving keeps the evaluation shallow)
RECURSIVE Vectors(_, _, _, _)
Vectors(lo, hi, beings, results) ==
    IF lo > hi THEN {<< >>}
    ELSE IF lo = hi THEN {<< u >> : u \in results[beings[lo]]}
    ELSE LET mid == (lo + hi) \div 2
         IN  {a \o b : a \in Vectors(lo, mid, beings, results),
                       b \in Vectors(mid + 1, hi, beings, results)}

\* the parallel map of main: each being updated against the snapshots (equal
\* beings have the same results, which are computed once)
UpdatesOf(beings, foods) ==
    Strict([b \in {beings[i] : i \in 1..Len(beings)} |->
              update(b, beings, foods)],
           LAMBDA results : Vectors(1, Len(beings), beings, results))

\* -------------------------------------------------------------- tick loop
VARIABLES
    beings,             \* main: beings
    foods,              \* main: foods (the list behind the mutex)
    stats,              \* main: stats (SimulationStats)
    beings_copy,        \* main: beings_copy, the snapshot of the tick
    foods_copy,         \* main: foods_copy, the snapshot of the tick
    updates,            \* main: updates, the results of the parallel map
    phase,              \* where the loop body stands
    ticks,              \* the iterations of the loop completed
    before,             \* the statistics at the start of the running tick
    committed,          \* what the last commit did with each result
    lock                \* main: the lock() call whose guard on foods is alive

vars == <<beings, foods, stats, beings_copy, foods_copy, updates, phase, ticks,
          before, committed, lock>>

\* no guard on the food list is alive
Free == "Free"

\* the iterations of the loop a behaviour runs
MaxTicks == 1

\* Food::new, the draws of position and energy
FoodDraw ==
    {[x |-> WINDOW_SIZE - 1, y |-> 0,
      energy |-> (7 * (EnergyScale \div 10)) - 1]}

\* a faulty removal: an index past the end removes the last item
RECURSIVE RemoveEatenClamped(_, _)
RemoveEatenClamped(fs, eaten) ==
    IF eaten = << >> THEN fs
    ELSE LET idx == Min(eaten[Len(eaten)], Len(fs))
             rest == SubSeq(eaten, 1, Len(eaten) - 1)
         IN  RemoveEatenClamped(SubSeq(fs, 1, idx - 1)
                                  \o SubSeq(fs, idx + 1, Len(fs)),
                                rest)

\* lines 410-420 of main: the removal of one result's eaten indices, last
\* first, each only if it is inside the list
RECURSIVE RemoveEaten(_, _)
RemoveEaten(fs, eaten) ==
    IF eaten = << >> THEN fs
    ELSE LET idx == eaten[Len(eaten)]
             rest == SubSeq(eaten, 1, Len(eaten) - 1)
         IN  RemoveEaten(IF idx <= Len(fs)
                         THEN SubSeq(fs, 1, idx - 1) \o SubSeq(fs, idx + 1, Len(fs))
                         ELSE fs,
                         rest)

\* lines 412-419 of main: the food list after the results lo..hi, in order
RECURSIVE RemoveAll(_, _, _, _)
RemoveAll(fs, us, lo, hi) ==
    IF lo > hi THEN fs
    ELSE IF lo = hi THEN RemoveEaten(fs, us[lo].eaten_food_indices)
    ELSE LET mid == (lo + hi) \div 2
         IN  Strict(RemoveAll(fs, us, lo, mid),
                    LAMBDA left : RemoveAll(left, us, mid + 1, hi))

\* the sum of f[lo..hi]
RECURSIVE Sum(_, _, _)
Sum(f, lo, hi) ==
    IF lo > hi THEN 0
    ELSE IF lo = hi THEN f[lo]
    ELSE LET mid == (lo + hi) \div 2
         IN  Sum(f, lo, mid) + Sum(f, mid + 1, hi)

\* line 413 of main, over all results
EatenCount(us) ==
    Sum([i \in 1..Len(us) |-> Len(us[i].eaten_food_indices)], 1, Len(us))

\* sum(energy) / len of line 424, for a non-empty bs
avg_energy(bs) ==
    LET n == Len(bs)
    IN  Sum([i \in 1..n |-> bs[i].energy \div n], 1, n)
        + (Sum([i \in 1..n |-> bs[i].energy % n], 1, n) \div n)

\* lines 429-440 of main, the flat_map: every result's being, then its
\* new_being if there is one; each entry remembers the result it came from
RECURSIVE FlatMap(_, _, _)
FlatMap(us, lo, hi) ==
    IF lo > hi THEN << >>
    ELSE IF lo = hi
    THEN << [b |-> us[lo].being, idx |-> lo, role |-> "self"] >>
         \o (IF IsSome(us[lo].new_being)
             THEN << [b |-> us[lo].new_being[1], idx |-> lo, role |-> "new"] >>
             ELSE << >>)
    ELSE LET mid == (lo + hi) \div 2
         IN  FlatMap(us, lo, mid) \o FlatMap(us, mid + 1, hi)

\* a faulty birth count: the results that reproduced, without the results
\* that carry a captured being
BirthsReplicated(us) ==
    Sum([i \in 1..Len(us) |-> IF us[i].replicated THEN 1 ELSE 0], 1, Len(us))

\* lines 431-433 of main: the results with a new being
Births(us) ==
    Sum([i \in 1..Len(us) |-> IF IsSome(us[i].new_being) THEN 1 ELSE 0],
        1, Len(us))

\* a faulty test: death of old age only
DiesOfAge(b) == b.age > b.max_age

\* lines 441-448 of main, the filter's test
Dies(b) == b.energy <= 0 \/ b.age > b.max_age

\* a faulty filter: everything is kept
KeepAll(e) == TRUE

Keep(e) == ~Dies(e.b)
Drop(e) == Dies(e.b)

\* a faulty limit: nothing is cut
NoTruncate(s) == s

\* lines 451-454 of main
Truncate(s) == IF Len(s) > MAX_BEINGS THEN SubSeq(s, 1, MAX_BEINGS) ELSE s

\* a faulty trim: the newest entry is dropped
TrimNewest(h) ==
    IF Len(h) > HISTORY_CAP THEN SubSeq(h, 1, HISTORY_CAP) ELSE h

\* lines 456-462 of main
Trim(h) == IF Len(h) > HISTORY_CAP THEN Tail(h) ELSE h

\* ------------------------------------------------------------ start states
\* e tenths of an energy unit
Tenths(e) == e * (EnergyScale \div 10)

NewBeing(t, x, y, e, age, g) ==
    [x |-> x, y |-> y, energy |-> e, being_type |-> t, genetics |-> g,
     age |-> age, max_age |-> max_age_of(t)]

Genes(speed, sz, rate, perception) ==
    [speed |-> speed, size |-> sz, reproduction_rate |-> rate,
     perception |-> perception]

GeneSmall == Genes(100, 80, 100, 1500)
GeneStd == Genes(100, 100, 100, 2000)
GeneBig == Genes(150, 120, 150, 2500)
\* Genetics::new_random(Carnivore): speed and perception above mutate's bounds
GeneHunter == Genes(390, 120, 140, 4900)

\* The beings a start state is made of: each species, young and old, fed and
\* starving, near each other, at a wall and in the corner of the world.
Actors ==
    {NewBeing(Herbivore, 4030, 4040, Tenths(10), 10, GeneSmall),
     NewBeing(Herbivore, 4000, 4000, Tenths(9), 100, GeneSmall),
     NewBeing(Herbivore, 100, 4000, Tenths(9), 100, GeneSmall),
     NewBeing(Herbivore, 7880, 7880, Tenths(10), 50, GeneBig),
     NewBeing(Herbivore, 2000, 2000,
              ENERGY_DECAY * (GeneStd.size + GeneStd.speed), 50, GeneStd),
     NewBeing(Herbivore, 60, 60, Tenths(10), max_age_of(Herbivore), GeneStd),
     NewBeing(Carnivore, 4000, 4000, Tenths(5), 10, GeneHunter),
     NewBeing(Carnivore, 4100, 4000, Tenths(9), 100, GeneHunter),
     NewBeing(Omnivore, 4000, 4000, Tenths(9), 100, GeneBig),
     NewBeing(Omnivore, 4060, 4000, Tenths(10), max_age_of(Omnivore), GeneSmall)}

NewFood(x, y, e) == [x |-> x, y |-> y, energy |-> e]

\* the food of a start state with several beings
FoodLists ==
    {<< >>,
     <<NewFood(4030, 4000, Tenths(4)), NewFood(3970, 4000, Tenths(3))>>}

\* the food of a start state with a lone being
LoneFoodLists ==
    FoodLists \cup {<<NewFood(4030, 4000, Tenths(4))>>,
                    <<NewFood(4100, 4040, Tenths(5))>>,
                    <<NewFood(7999, 7999, Tenths(6))>>}

\* a crowd: n copies of v
Copies(n, v) == [i \in 1..n |-> v]

FillerBeing == NewBeing(Herbivore, 1000, 1000, Tenths(5), 10, GeneStd)
FillerFood == NewFood(1000, 1100, Tenths(5))

\* the beings a crowd is gathered around: the herbivores in the middle of the
\* world
Settlers ==
    {a \in Actors : a.being_type = Herbivore /\ a.x = 4000 /\ a.y = 4000}

\* a herbivore next to the second food item of DinerFoodLists
Diner == NewBeing(Herbivore, 3960, 4000, Tenths(9), 10, GeneSmall)

\* a herbivore between the two food items of DinerFoodLists
DinerHost == NewBeing(Herbivore, 4000, 4000, Tenths(9), 10, GeneSmall)

\* the food of a start state with two herbivores that eat different items
DinerFoodLists ==
    {<<NewFood(4030, 4000, Tenths(4)), NewFood(3970, 4000, Tenths(3))>>,
     <<NewFood(4030, 4000, Tenths(4)), NewFood(3970, 4000, Tenths(3)),
       NewFood(7000, 7000, Tenths(6))>>}

\* two carnivores within capture radius of one herbivore, in every position of
\* the herbivore among them
Packs ==
    LET c1 == NewBeing(Carnivore, 4000, 4000, Tenths(5), 10, GeneHunter)
        c2 == NewBeing(Carnivore, 4100, 4000, Tenths(9), 100, GeneHunter)
        h == NewBeing(Herbivore, 4030, 4040, Tenths(10), 10, GeneSmall)
    IN  {<<c1, c2, h>>, <<c1, h, c2>>, <<h, c2, c1>>}

\* a carnivore and two herbivores it perceives, 20 px and 11 px away: both
\* well fed (a herbivore that has eaten holds more than 1.1), both hungry, and
\* one of each
Herds ==
    LET c == NewBeing(Carnivore, 4000, 4000, Tenths(9), 10, GeneHunter)
        far(e) == NewBeing(Herbivore, 4200, 4000, e, 10, GeneSmall)
        near(e) == NewBeing(Herbivore, 4000, 4110, e, 10, GeneSmall)
    IN  {<<c, far(e[1]), near(e[2])>> :
           e \in {<<Tenths(15), Tenths(15)>>, <<Tenths(9), Tenths(9)>>,
                  <<Tenths(15), Tenths(9)>>}}

\* an omnivore and two herbivores within its capture radius, the nearer one
\* (7 px) with more energy than the farther one (8 px), and both alike
Hunts ==
    LET o == NewBeing(Omnivore, 4000, 4000, Tenths(9), 10, GeneBig)
        near(e) == NewBeing(Herbivore, 4070, 4000, e, 10, GeneSmall)
        far(e) == NewBeing(Herbivore, 4000, 4080, e, 10, GeneSmall)
    IN  {<<o, near(e[1]), far(e[2])>> :
           e \in {<<Tenths(10), Tenths(2)>>, <<Tenths(9), Tenths(9)>>}}

\* the start states: the worlds of two beings in either order (all but two
\* predators of one species, which ignore each other), the worlds of a lone
\* being, the worlds at the population cap (with one food item and with the
\* food at its cap), the worlds one being below the population cap and the
\* worlds at the food cap, the worlds of two herbivores at different food
\* items and the worlds of a predator with two prey or of two with one
Worlds ==
    {[beings |-> p, foods |-> fs] :
        p \in {q \in Actors \X Actors :
                  \/ q[1].being_type = Herbivore
                  \/ q[2].being_type = Herbivore
                  \/ q[1].being_type # q[2].being_type},
        fs \in FoodLists}
    \cup {[beings |-> <<a>>, foods |-> fs] : a \in Actors, fs \in LoneFoodLists}
    \cup {[beings |-> <<a>> \o Copies(MAX_BEINGS - 1, FillerBeing),
           foods |-> fs] :
            a \in Settlers, fs \in {<<FillerFood>>, Copies(MAX_FOOD, FillerFood)}}
    \cup {[beings |-> Copies(MAX_BEINGS - 1, FillerBeing) \o <<a>>,
           foods |-> <<FillerFood>>] : a \in Settlers}
    \cup {[beings |-> Copies(MAX_BEINGS - 3, FillerBeing) \o <<a, a>>,
           foods |-> <<FillerFood>>] : a \in Settlers}
    \cup {[beings |-> <<a>>, foods |-> Copies(n, FillerFood)] :
            a \in Actors, n \in {MAX_FOOD - 1, MAX_FOOD}}
    \cup {[beings |-> p, foods |-> fs] :
            p \in {<<DinerHost, Diner>>, <<Diner, DinerHost>>},
            fs \in DinerFoodLists}
    \cup {[beings |-> p, foods |-> << >>] : p \in Packs \cup Herds \cup Hunts}

EmptyStats ==
    [total_births |-> 0, total_deaths |-> 0, max_population |-> 0,
     food_eaten |-> 0, energy_history |-> << >>, population_history |-> << >>]

\* the counters and the histories as they stand
Counters ==
    [total_births |-> stats.total_births, total_deaths |-> stats.total_deaths,
     food_eaten |-> stats.food_eaten,
     population_history |-> stats.population_history,
     energy_history |-> stats.energy_history]

Init ==
    /\ \E w \in Worlds : beings = w.beings /\ foods = w.foods
    /\ stats = EmptyStats
    /\ beings_copy = << >>
    /\ foods_copy = << >>
    /\ updates = << >>
    /\ phase = "Idle"
    /\ ticks = 0
    /\ before = Counters
    /\ committed = [origin |-> << >>, died |-> << >>, uncut |-> 0]
    /\ lock = Free

\* a faulty spawn: food is pushed whatever the length of the list
SpawnUncapped(fs, spawn, f) == IF spawn THEN Append(fs, f) ELSE fs

\* lines 393-395 of main: the food list after the spawn step, for the draw
\* spawn of the spawn rate and the new food f
Spawn(fs, spawn, f) ==
    IF Len(fs) < MAX_FOOD /\ spawn THEN Append(fs, f) ELSE fs

\* lines 386-400 of main: the history push, the food spawn and the
\* snapshots, for the first limit iterations of the loop
BeginTickOf(limit) ==
    /\ phase = "Idle"
    /\ ticks < limit
    /\ stats' = [stats EXCEPT
                   !.population_history = Append(@, Len(beings)),
                   !.max_population = Max(@, Len(beings))]
    /\ \E spawn \in BOOLEAN, f \in FoodDraw : foods' = Spawn(foods, spawn, f)
    /\ beings_copy' = beings
    /\ foods_copy' = foods'
    /\ before' = Counters
    /\ phase' = "ParallelEvaluate"
    /\ UNCHANGED <<beings, updates, ticks, committed, lock>>

\* lines 402-407 of main: the parallel map; every being is updated in place
\* against the snapshots and its result collected in being order
ParallelUpdate ==
    /\ phase = "ParallelEvaluate"
    /\ \E us \in UpdatesOf(beings_copy, foods_copy) :
          /\ updates' = us
          /\ beings' = [i \in 1..Len(beings) |-> us[i].being]
    /\ phase' = "Committing"
    /\ UNCHANGED <<foods, stats, beings_copy, foods_copy, ticks, before,
                   committed, lock>>

\* lines 409-462 of main: food removal, energy history, births and deaths,
\* the population limit and the history trim
Commit ==
    /\ phase = "Committing"
    /\ \E flat \in {FlatMap(updates, 1, Len(updates))} :
       \E kept \in {SelectSeq(flat, Keep)}, dropped \in {SelectSeq(flat, Drop)} :
       \E cut \in {Truncate(kept)} :
           /\ foods' = RemoveAll(foods, updates, 1, Len(updates))
           /\ beings' = [k \in 1..Len(cut) |-> cut[k].b]
           /\ stats' = [stats EXCEPT
                          !.food_eaten = @ + EatenCount(updates),
                          !.energy_history =
                              Trim(IF beings # << >>
                                   THEN Append(@, avg_energy(beings)) ELSE @),
                          !.total_births = @ + Births(updates),
                          !.total_deaths = @ + Len(dropped),
                          !.population_history = Trim(@)]
           /\ committed' =
                [origin |-> [k \in 1..Len(cut) |->
                               [idx |-> cut[k].idx, role |-> cut[k].role]],
                 died |-> [k \in 1..Len(dropped) |->
                             [idx |-> dropped[k].idx, role |-> dropped[k].role]],
                 uncut |-> Len(kept)]
    /\ ticks' = ticks + 1
    /\ phase' = "Idle"
    /\ UNCHANGED <<beings_copy, foods_copy, updates, before, lock>>

BeginTick == BeginTickOf(MaxTicks)

Next == BeginTick \/ ParallelUpdate \/ Commit

Spec == Init /\ [][Next]_vars

\* ------------------------------------------------------------ properties
\* a tick has been committed and the loop stands before the next one
Stepped == phase = "Idle" /\ ticks > 0

\* the place in the committed population of the entry `role` of result i
PlacesOf(i, role) ==
    {k \in 1..Len(committed.origin) :
        committed.origin[k] = [idx |-> i, role |-> role]}

\* the snapshot being i is a carnivore whose target, a smaller herbivore, is
\* within capture radius at tick start
CapturesAtStart(i, j) ==
    /\ beings_copy[i].being_type = Carnivore
    /\ beings_copy[j].being_type = Herbivore
    /\ size(beings_copy[j]) < size(beings_copy[i])
    /\ CarnivoreTarget(prologue(beings_copy[i]), beings_copy) = j
    /\ InCaptureRadius(beings_copy[i], beings_copy[j])

\* C1: a carnivore within capture radius of a smaller herbivore at tick start
\* captures it: after the step the prey is absent from the population, which
\* holds no copy of it, and the carnivore has gained 0.95 times the prey's
\* energy (beside the decay of the tick).
C1_CaptureRemovesPrey ==
    Stepped =>
        \A i, j \in 1..Len(beings_copy) :
            CapturesAtStart(i, j) =>
                /\ PlacesOf(j, "self") = {}
                /\ \A k \in 1..Len(beings) : beings[k] # beings_copy[j]
                /\ updates[i].being.energy =
                       prologue(beings_copy[i]).energy
                       + Scale(beings_copy[j].energy, 95, 100)

\* C2: the population never exceeds MAX_BEINGS and the food list never
\* exceeds MAX_FOOD, after every step and in between.
C2_Caps == Len(beings) <= MAX_BEINGS /\ Len(foods) <= MAX_FOOD

\* C2, its case: a step whose commit cut the population back to MAX_BEINGS
\* while the food list stood at MAX_FOOD, where the spawn is refused
C2_Witness ==
    /\ Stepped
    /\ committed.uncut > MAX_BEINGS
    /\ Len(beings) = MAX_BEINGS
    /\ Len(foods_copy) = MAX_FOOD
    /\ Len(foods) = MAX_FOOD

InWorld(b) ==
    /\ 0 <= b.x /\ b.x <= WINDOW_SIZE - size(b)
    /\ 0 <= b.y /\ b.y <= WINDOW_SIZE - size(b)

\* C3: after every step every being of the population, newborn children and
\* captors included, has 0 <= x <= WINDOW_SIZE - size and likewise for y.
C3_PositionBounds ==
    Stepped => \A k \in 1..Len(beings) : InWorld(beings[k])

\* ---- the step applied to a population that holds a being with energy 0
\* The filter of main removes every being with energy <= 0, so the loop never
\* starts a tick with such a being; the scenario of an energy of 0 at tick
\* start is the step applied to a population constructed with one.
Starved ==
    {NewBeing(Herbivore, 4000, 4000, 0, 10, GeneSmall),
     NewBeing(Carnivore, 4000, 4000, 0, 10, GeneHunter),
     NewBeing(Omnivore, 4000, 4000, 0, 100, GeneBig)}

StarvedWorlds ==
    {[beings |-> <<z, a>>, foods |-> fs] :
        z \in Starved, a \in Actors, fs \in FoodLists}
    \cup {[beings |-> <<a, z>>, foods |-> fs] :
            z \in Starved, a \in Actors, fs \in FoodLists}
    \cup {[beings |-> <<z>>, foods |-> fs] : z \in Starved, fs \in LoneFoodLists}

InitStarved ==
    /\ \E w \in StarvedWorlds : beings = w.beings /\ foods = w.foods
    /\ stats = EmptyStats
    /\ beings_copy = << >>
    /\ foods_copy = << >>
    /\ updates = << >>
    /\ phase = "Idle"
    /\ ticks = 0
    /\ before = Counters
    /\ committed = [origin |-> << >>, died |-> << >>, uncut |-> 0]
    /\ lock = Free

SpecStarved == InitStarved /\ [][Next]_vars

\* the snapshot beings captured during the tick
CapturedSet == {updates[j].captured : j \in 1..Len(updates)} \ {0}

\* the snapshot being i was captured during the tick
Captured(i) == i \in CapturedSet

\* the entries of the last commit's deaths that are the snapshot being i: its
\* own updated record, and the copies of it its captors returned
DeathsOf(i) ==
    {k \in 1..Len(committed.died) :
        \/ committed.died[k] = [idx |-> i, role |-> "self"]
        \/ /\ committed.died[k].role = "new"
           /\ updates[committed.died[k].idx].captured = i}

\* the snapshot being i is gone and the death counter rose by one for it
GoneAndCounted(i) ==
    /\ PlacesOf(i, "self") = {}
    /\ Cardinality(DeathsOf(i)) = 1
    /\ stats.total_deaths - before.total_deaths = Len(committed.died)

LoneHerbivoreSeesFood ==
    /\ Stepped
    /\ Len(beings_copy) = 1
    /\ Len(foods_copy) = 1
    /\ beings_copy[1].being_type = Herbivore
    /\ InPerception(Dist2(beings_copy[1].x, beings_copy[1].y,
                          foods_copy[1].x, foods_copy[1].y),
                    beings_copy[1], 1, 1)
    /\ PlacesOf(1, "self") # {}

\* the squared distance from a being to the food item of the tick
FoodDist2(b) == Dist2(b.x, b.y, foods_copy[1].x, foods_copy[1].y)

\* d <= size/2 + 2.5 for the being b at squared distance d2
AtFood(b, d2) ==
    d2 <= ((size(b) + 5 * PosScale) * (size(b) + 5 * PosScale)) \div 4

\* C5: a lone herbivore that sees a single food item at a distance above
\* size/2 + 2.5 moves strictly closer to it on every tick, wherever in the
\* world the food lies, so that it arrives; at a distance of at most
\* size/2 + 2.5 the food is removed and the herbivore gains the food's energy
\* (beside the decay of the tick, when it does not reproduce).
C5_HerbivoreReachesFood ==
    LoneHerbivoreSeesFood =>
        IF AtFood(beings_copy[1], FoodDist2(beings_copy[1]))
        THEN /\ foods = << >>
             /\ ~updates[1].replicated =>
                    updates[1].being.energy =
                        prologue(beings_copy[1]).energy + foods_copy[1].energy
        ELSE FoodDist2(updates[1].being) < FoodDist2(beings_copy[1])

\* the being of result i neither consumed food or prey nor was captured,
\* given the set of the beings captured
Unfed(i, captured) ==
    /\ updates[i].eaten_food_indices = << >>
    /\ updates[i].captured = 0
    /\ i \notin captured

\* decay_rate * (genetics.size + genetics.speed)
DecayOf(b) == ENERGY_DECAY * (b.genetics.size + b.genetics.speed)

\* C6 as stated: every being that neither consumed food or prey nor was
\* captured during a tick ends the step with its energy before the step less
\* decay_rate * (size + speed).
C6_DecayOnly ==
    Stepped =>
        \A captured \in {CapturedSet} :
        \A k \in 1..Len(beings) :
            LET i == committed.origin[k].idx
            IN  (committed.origin[k].role = "self" /\ Unfed(i, captured)) =>
                    beings[k].energy =
                        beings_copy[i].energy - DecayOf(beings_copy[i])

\* C6, amended: every being that neither consumed food or prey, nor was
\* captured, nor reproduced during a tick ends the step with its energy
\* before the step less decay_rate * (size + speed).
C6_DecayOnlyUnlessReproduced ==
    Stepped =>
        \A captured \in {CapturedSet} :
        \A k \in 1..Len(beings) :
            LET i == committed.origin[k].idx
            IN  (/\ committed.origin[k].role = "self"
                 /\ Unfed(i, captured)
                 /\ ~updates[i].replicated) =>
                    beings[k].energy =
                        beings_copy[i].energy - DecayOf(beings_copy[i])

\* C6, its case: a being of an age and an energy that allow reproduction
\* neither ate, nor was captured, nor reproduced, and is in the population
C6_Witness ==
    /\ Stepped
    /\ \E k \in 1..Len(beings) :
          LET i == committed.origin[k].idx
          IN  /\ committed.origin[k].role = "self"
              /\ Unfed(i, CapturedSet)
              /\ ~updates[i].replicated
              /\ can_replicate(prologue(beings_copy[i]), TRUE)

\* C7: every being present before and after a step is one tick older after
\* it: the updated record of the snapshot being i has its age plus 1.
C7_SurvivorsAge ==
    Stepped =>
        \A k \in 1..Len(beings) :
            committed.origin[k].role = "self" =>
                beings[k].age = beings_copy[committed.origin[k].idx].age + 1

\* C7, its case: a being survived a tick that another being did not
C7_Witness ==
    /\ Stepped
    /\ \E k \in 1..Len(beings) : committed.origin[k].role = "self"
    /\ \E k \in 1..Len(committed.died) : committed.died[k].role = "self"

\* the energy of the being of result i when Being::update reaches
\* can_replicate: the energy at tick start, less the decay, plus what the
\* eaten food gave
EnergyBeforeReproduction(i) ==
    prologue(beings_copy[i]).energy
    + (IF updates[i].eaten_food_indices = << >> THEN 0
       ELSE IF beings_copy[i].being_type = Herbivore
       THEN foods_copy[updates[i].eaten_food_indices[1]].energy
       ELSE Scale(foods_copy[updates[i].eaten_food_indices[1]].energy, 12, 10))

\* the parent of result i and its child are both in the population, once
\* each; the child has age 0, half the parent's energy before reproduction
\* and the parent's species and max_age, and the parent has the other half
ParentAndChild(i) ==
    /\ Cardinality(PlacesOf(i, "self")) = 1
    /\ Cardinality(PlacesOf(i, "new")) = 1
    /\ Len(beings_copy) = 1 => Len(beings) = 2
    /\ \A k \in PlacesOf(i, "new") :
          /\ beings[k].age = 0
          /\ beings[k].energy = TDiv(EnergyBeforeReproduction(i), 2)
          /\ beings[k].being_type = beings_copy[i].being_type
          /\ beings[k].max_age = beings_copy[i].max_age
    /\ \A k \in PlacesOf(i, "self") :
          beings[k].energy = TDiv(EnergyBeforeReproduction(i), 2)

\* C8 as stated: when a being reproduces in a tick that starts with the
\* population below the cap, the population gains exactly one being, the
\* child, with age 0, half the parent's pre-reproduction energy and the
\* parent's species and max_age; the parent keeps the other half.
C8_ReproductionBelowCap ==
    Stepped =>
        \A i \in 1..Len(updates) :
            (updates[i].replicated /\ Len(beings_copy) < MAX_BEINGS) =>
                ParentAndChild(i)

\* C8, amended: when a being reproduces in a tick whose commit cuts nothing
\* off the population (the survivors and newcomers of the tick are at most
\* MAX_BEINGS), the population gains exactly one being, the child, with age
\* 0, half the parent's pre-reproduction energy and the parent's species and
\* max_age; the parent keeps the other half.
C8_ReproductionUncut ==
    Stepped =>
        \A i \in 1..Len(updates) :
            (updates[i].replicated /\ committed.uncut <= MAX_BEINGS) =>
                ParentAndChild(i)

\* C8, its case: a being that ate during the tick reproduced, and parent and
\* child are in the population
C8_Witness ==
    /\ Stepped
    /\ \E i \in 1..Len(updates) :
          /\ updates[i].replicated
          /\ updates[i].eaten_food_indices # << >>
          /\ committed.uncut <= MAX_BEINGS
          /\ ParentAndChild(i)

\* the results whose updated being violates the alive invariant, and those
\* whose new being does
DeadSelves == {i \in 1..Len(updates) : Dies(updates[i].being)}
DeadNew ==
    {i \in 1..Len(updates) :
        IsSome(updates[i].new_being) /\ Dies(updates[i].new_being[1])}

\* C9: after every step every being of the population has energy > 0 and
\* age <= max_age; every updated being and every new being that violates
\* this is left out by the commit and counted as one death.
C9_AliveInvariant ==
    Stepped =>
        /\ \A k \in 1..Len(beings) :
              beings[k].energy > 0 /\ beings[k].age <= beings[k].max_age
        /\ \A i \in DeadSelves : PlacesOf(i, "self") = {}
        /\ \A i \in DeadNew : PlacesOf(i, "new") = {}
        /\ stats.total_deaths - before.total_deaths
              = Cardinality(DeadSelves) + Cardinality(DeadNew)

\* C9, its case: a tick in which one being ran out of energy or of age and
\* another being lived
C9_Witness ==
    /\ Stepped
    /\ Len(beings) > 0
    /\ DeadSelves # {}
    /\ stats.total_deaths = before.total_deaths + 1

\* trait values below, inside and above every range of the bound table
TraitProbe == {0, 1, 150, 100000}

GeneProbe ==
    {Genes(a, b, c, d) : a \in TraitProbe, b \in TraitProbe,
                         c \in TraitProbe, d \in TraitProbe}

\* C10: mutate returns traits inside the bound table for every input, inputs
\* outside the table included, so every being born by reproduction has its
\* four traits inside the table.
C10_MutateInBounds ==
    /\ (phase = "Idle" /\ ticks = 0) =>
          \A g \in GeneProbe, d \in ReplicateDraw :
              InBoundTable(mutate(g, d.f))
    /\ Stepped =>
          \A i \in 1..Len(updates) :
              updates[i].replicated =>
                  /\ InBoundTable(updates[i].new_being[1].genetics)
                  /\ \E d \in ReplicateDraw :
                        updates[i].new_being[1].genetics
                            = mutate(beings_copy[i].genetics, d.f)

\* C10, its case: a parent whose traits lie outside the bound table has a
\* child in the population
C10_Witness ==
    /\ Stepped
    /\ \E i \in 1..Len(updates) :
          /\ updates[i].replicated
          /\ ~InBoundTable(beings_copy[i].genetics)
          /\ PlacesOf(i, "new") # {}

\* ---- the tick applied after the histories have filled up
\* a history of n ticks: entry k was recorded at tick k
History(n, unit) == [k \in 1..n |-> k * unit]

\* the statistics after n ticks of a population that never died out
StatsAfter(n) ==
    [EmptyStats EXCEPT
        !.population_history = History(n, 1),
        !.energy_history = History(n, 1000),
        !.max_population = n]

\* the start states: a lone being after HISTORY_CAP - 1 and after HISTORY_CAP
\* ticks
InitHistory ==
    /\ \E a \in Actors, fs \in LoneFoodLists :
          beings = <<a>> /\ foods = fs
    /\ \E n \in {HISTORY_CAP - 1, HISTORY_CAP} : stats = StatsAfter(n)
    /\ beings_copy = << >>
    /\ foods_copy = << >>
    /\ updates = << >>
    /\ phase = "Idle"
    /\ ticks = 0
    /\ before = Counters
    /\ committed = [origin |-> << >>, died |-> << >>, uncut |-> 0]
    /\ lock = Free

SpecHistory == InitHistory /\ [][Next]_vars

\* h holds the last entries of full, in their order, as many as the cap
\* allows
IsLatest(h, full) ==
    /\ Len(h) = Min(Len(full), HISTORY_CAP)
    /\ h = SubSeq(full, Len(full) - Len(h) + 1, Len(full))

\* the histories of the tick with the entries the tick recorded
PopulationRecorded ==
    Append(before.population_history, Len(beings_copy))
EnergyRecorded ==
    IF updates = << >> THEN before.energy_history
    ELSE Append(before.energy_history,
                avg_energy([i \in 1..Len(updates) |-> updates[i].being]))

\* C11: after every tick the population history and the energy history hold
\* at most HISTORY_CAP entries each; they are the latest entries recorded,
\* in chronological order, so an evicted entry is the oldest one.
C11_HistoriesBounded ==
    Stepped =>
        /\ Len(stats.population_history) <= HISTORY_CAP
        /\ Len(stats.energy_history) <= HISTORY_CAP
        /\ IsLatest(stats.population_history, PopulationRecorded)
        /\ IsLatest(stats.energy_history, EnergyRecorded)

\* C11, its case: the tick started with both histories full and evicted the
\* oldest entry of each
C11_Witness ==
    /\ Stepped
    /\ Len(before.population_history) = HISTORY_CAP
    /\ Len(before.energy_history) = HISTORY_CAP
    /\ stats.population_history[1] = before.population_history[2]
    /\ stats.energy_history[1] = before.energy_history[2]
    /\ stats.energy_history[HISTORY_CAP] # before.energy_history[HISTORY_CAP]

\* ---- the removal of consumed food
\* the snapshot indices some result of the tick reports as eaten
ConsumedIndices ==
    UNION {{updates[i].eaten_food_indices[k] :
              k \in 1..Len(updates[i].eaten_food_indices)} :
           i \in 1..Len(updates)}

\* the snapshot index of the k-th food that no result reports as eaten
Unconsumed(k, consumed) ==
    CHOOSE j \in k..(k + Cardinality(consumed)) :
        /\ j \notin consumed
        /\ j - Cardinality({c \in consumed : c <= j}) = k

\* C12: the commit removes exactly the food at the consumed indices of the
\* snapshot: every removed item stood at a consumed index and every
\* unconsumed item remains, in order, for any number of eaters.
C12_ConsumedFoodRemoved ==
    Stepped =>
        \A consumed \in {ConsumedIndices} :
            /\ Len(foods) = Len(foods_copy) - Cardinality(consumed)
            /\ \A k \in 1..Len(foods) :
                  foods[k] = foods_copy[Unconsumed(k, consumed)]

\* the food list the commit holds when it comes to result i
FoodsBefore(i) == RemoveAll(foods_copy, updates, 1, i - 1)

\* result i reports an index that is outside the list when the commit comes
\* to it
Skipped(i) ==
    /\ updates[i].eaten_food_indices # << >>
    /\ \A fs \in {FoodsBefore(i)} :
          \A k \in 1..Len(updates[i].eaten_food_indices) :
              updates[i].eaten_food_indices[k] > Len(fs)

\* C18: a consumed index at or past the end of the food list is skipped: the
\* list is unchanged by it, the remaining results are still applied and the
\* commit completes with its counters and histories updated.
C18_StaleIndexSkipped ==
    Stepped =>
        \A i \in 1..Len(updates) :
            Skipped(i) =>
                \A fs \in {FoodsBefore(i)} :
                    /\ RemoveAll(foods_copy, updates, 1, i) = fs
                    /\ foods = RemoveAll(fs, updates, i + 1, Len(updates))
                    /\ stats.food_eaten - before.food_eaten
                         = EatenCount(updates)
                    /\ stats.total_births - before.total_births
                         = Births(updates)
                    /\ stats.total_deaths - before.total_deaths
                         = Len(committed.died)
                    /\ committed.uncut + Len(committed.died)
                         = Len(updates) + Births(updates)
                    /\ Len(beings) = Min(committed.uncut, MAX_BEINGS)

\* C18, its case: a commit met an index past the end of a non-empty list
\* and went on
C18_Witness ==
    /\ Stepped
    /\ \E i \in 1..Len(updates) : Skipped(i) /\ FoodsBefore(i) # << >>

\* ---- several captures of one prey
\* the results that captured the snapshot being j, and the first of them
ClaimantsOf(j) == {i \in 1..Len(updates) : updates[i].captured = j}
FirstClaimant(j) ==
    CHOOSE i \in ClaimantsOf(j) : \A k \in ClaimantsOf(j) : i <= k

\* the energy reward of the captor i for the prey j
RewardOf(i, j) ==
    Scale(beings_copy[j].energy,
          IF beings_copy[i].being_type = Carnivore THEN 95 ELSE 85, 100)

\* the places of the committed population that hold the snapshot being j: its
\* own record or a copy a captor returned
HeldPlacesOf(j) ==
    {k \in 1..Len(committed.origin) :
        \/ committed.origin[k] = [idx |-> j, role |-> "self"]
        \/ /\ committed.origin[k].role = "new"
           /\ updates[committed.origin[k].idx].captured = j}

\* C13: when several predators capture the same prey in one tick, the first
\* claimant in being order keeps the energy reward, every later claimant
\* ends with no energy gain, and the prey is gone from the population.
C13_FirstClaimWins ==
    Stepped =>
        \A j \in 1..Len(beings_copy) :
            Cardinality(ClaimantsOf(j)) > 1 =>
                /\ \A i \in ClaimantsOf(j) :
                      updates[i].being.energy =
                          prologue(beings_copy[i]).energy
                          + (IF i = FirstClaimant(j) THEN RewardOf(i, j) ELSE 0)
                /\ HeldPlacesOf(j) = {}

\* ---- births and reproduction
\* the results of the tick whose being passed can_replicate
Reproduced == {i \in 1..Len(updates) : updates[i].replicated}

\* C14: the birth counter rises in a tick by exactly the number of beings
\* whose reproduction succeeded in that tick; nothing else, such as a
\* capture, increments it.
C14_BirthsAreReproductions ==
    Stepped =>
        stats.total_births - before.total_births = Cardinality(Reproduced)

\* result i ended without reproducing although its final energy and age pass
\* the test of can_replicate
EligibleUnreproduced(i) ==
    /\ ~updates[i].replicated
    /\ can_replicate(updates[i].being, TRUE)

\* C15: the eligibility for reproduction is evaluated for every being in
\* every tick once its movement and consumption are final, a tick in which
\* it captured prey included: whenever a being ends a tick eligible and
\* without offspring, the same outcome with a successful roll reproduces.
C15_ReproductionEvaluated ==
    Stepped =>
        \A i \in 1..Len(updates) :
            EligibleUnreproduced(i) =>
                \E u \in update(beings_copy[i], beings_copy, foods_copy) :
                    /\ u.replicated
                    /\ u.captured = updates[i].captured
                    /\ u.eaten_food_indices = updates[i].eaten_food_indices

\* ------------------------------------------- the loop, statement by statement
\* The loop body of main with every lock() call on the food list and every
\* worker of the parallel map as a step of its own. Only the main thread
\* locks the mutex: the workers read foods_copy.

\* the statements of main that call foods.lock(): lines 393 (condition), 394,
\* 399, 411, 485 and 505
LockSites ==
    {"SpawnCheck", "SpawnPush", "Snapshot", "CommitFoods", "DrawStats",
     "DrawFoods"}

\* a faulty drop: the guard outlives its statement
KeepGuard(guard) == guard

\* the drop of a MutexGuard at the end of its statement, block or closure
Release(guard) == Free

\* a faulty worker: it reads the live beings instead of the snapshot
LiveView(live, copy) == live

\* line 404 of main: the beings a worker passes to update
WorkerView(live, copy) == copy

\* the start states: two herbivores at different food items, two carnivores
\* at one prey, an omnivore with two prey
ThreadWorlds ==
    {w \in Worlds :
        w.beings \in Packs
                       \cup {<<DinerHost, Diner>>, <<Diner, DinerHost>>}}

InitThreads ==
    /\ \E w \in ThreadWorlds : beings = w.beings /\ foods = w.foods
    /\ stats = EmptyStats
    /\ beings_copy = << >>
    /\ foods_copy = << >>
    /\ updates = << >>
    /\ phase = "Idle"
    /\ ticks = 0
    /\ before = Counters
    /\ committed = [origin |-> << >>, died |-> << >>, uncut |-> 0]
    /\ lock = Free

\* lines 386-390 of main
StartTick ==
    /\ phase = "Idle"
    /\ ticks < MaxTicks
    /\ stats' = [stats EXCEPT
                   !.population_history = Append(@, Len(beings)),
                   !.max_population = Max(@, Len(beings))]
    /\ before' = Counters
    /\ phase' = "SpawnCheck"
    /\ UNCHANGED <<beings, foods, beings_copy, foods_copy, updates, ticks,
                   committed, lock>>

\* foods.lock() of the statement the loop stands at: the guard is handed out
\* if no guard is alive; a thread that asks while its own guard is alive
\* never gets it
RequestLock ==
    /\ phase \in LockSites
    /\ lock # phase
    /\ IF lock = Free
       THEN lock' = phase /\ phase' = phase
       ELSE lock' = lock /\ phase' = "Deadlocked"
    /\ UNCHANGED <<beings, foods, stats, beings_copy, foods_copy, updates,
                   ticks, before, committed>>

\* line 393 of main: the condition of the spawn; its guard is dropped before
\* the body is entered
SpawnCheck ==
    /\ phase = "SpawnCheck"
    /\ lock = "SpawnCheck"
    /\ \E spawn \in BOOLEAN :
          phase' = IF Len(foods) < MAX_FOOD /\ spawn
                   THEN "SpawnPush" ELSE "Snapshot"
    /\ lock' = Release(lock)
    /\ UNCHANGED <<beings, foods, stats, beings_copy, foods_copy, updates,
                   ticks, before, committed>>

\* line 394 of main
SpawnPush ==
    /\ phase = "SpawnPush"
    /\ lock = "SpawnPush"
    /\ \E f \in FoodDraw : foods' = Append(foods, f)
    /\ lock' = Release(lock)
    /\ phase' = "Snapshot"
    /\ UNCHANGED <<beings, stats, beings_copy, foods_copy, updates, ticks,
                   before, committed>>

\* lines 398-400 of main
Snapshot ==
    /\ phase = "Snapshot"
    /\ lock = "Snapshot"
    /\ beings_copy' = beings
    /\ foods_copy' = foods
    /\ lock' = Release(lock)
    /\ phase' = "ParallelEvaluate"
    /\ UNCHANGED <<beings, foods, stats, updates, ticks, before, committed>>

\* line 402 of main: par_iter_mut hands every being to the pool; no result
\* is there yet
Fork ==
    /\ phase = "ParallelEvaluate"
    /\ updates' = [i \in 1..Len(beings) |-> None]
    /\ phase' = "Evaluating"
    /\ UNCHANGED <<beings, foods, stats, beings_copy, foods_copy, ticks,
                   before, committed, lock>>

\* lines 403-406 of main: a worker updates being i in place and leaves its
\* result; the workers run in any order
Evaluate(i) ==
    /\ phase = "Evaluating"
    /\ updates[i] = None
    /\ \E u \in update(beings[i], WorkerView(beings, beings_copy), foods_copy) :
          /\ updates' = [updates EXCEPT ![i] = Some(u)]
          /\ beings' = [beings EXCEPT ![i] = u.being]
    /\ UNCHANGED <<foods, stats, beings_copy, foods_copy, phase, ticks, before,
                   committed, lock>>

\* line 407 of main: collect returns the results in being order once every
\* worker is done
Join ==
    /\ phase = "Evaluating"
    /\ \A i \in 1..Len(updates) : IsSome(updates[i])
    /\ updates' = [i \in 1..Len(updates) |-> updates[i][1]]
    /\ phase' = "CommitFoods"
    /\ UNCHANGED <<beings, foods, stats, beings_copy, foods_copy, ticks,
                   before, committed, lock>>

\* lines 410-420 of main: the block that holds the guard
CommitFoods ==
    /\ phase = "CommitFoods"
    /\ lock = "CommitFoods"
    /\ foods' = RemoveAll(foods, updates, 1, Len(updates))
    /\ stats' = [stats EXCEPT !.food_eaten = @ + EatenCount(updates)]
    /\ lock' = Release(lock)
    /\ phase' = "CommitBeings"
    /\ UNCHANGED <<beings, beings_copy, foods_copy, updates, ticks, before,
                   committed>>

\* lines 422-462 of main
CommitBeings ==
    /\ phase = "CommitBeings"
    /\ \E flat \in {FlatMap(updates, 1, Len(updates))} :
       \E kept \in {SelectSeq(flat, Keep)}, dropped \in {SelectSeq(flat, Drop)} :
       \E cut \in {Truncate(kept)} :
           /\ beings' = [k \in 1..Len(cut) |-> cut[k].b]
           /\ stats' = [stats EXCEPT
                          !.energy_history =
                              Trim(IF beings # << >>
                                   THEN Append(@, avg_energy(beings)) ELSE @),
                          !.total_births = @ + Births(updates),
                          !.total_deaths = @ + Len(dropped),
                          !.population_history = Trim(@)]
           /\ committed' =
                [origin |-> [k \in 1..Len(cut) |->
                               [idx |-> cut[k].idx, role |-> cut[k].role]],
                 died |-> [k \in 1..Len(dropped) |->
                             [idx |-> dropped[k].idx, role |-> dropped[k].role]],
                 uncut |-> Len(kept)]
    /\ phase' = "Draw"
    /\ UNCHANGED <<foods, beings_copy, foods_copy, updates, ticks, before,
                   lock>>

\* line 465 of main: draw_2d runs the closure for a render event only; the
\* statistics line is drawn if the font was loaded (line 478)
Draw ==
    /\ phase = "Draw"
    /\ \E render \in BOOLEAN, glyphs \in BOOLEAN :
          /\ phase' = IF ~render THEN "Idle"
                      ELSE IF glyphs THEN "DrawStats" ELSE "DrawFoods"
          /\ ticks' = IF render THEN ticks ELSE ticks + 1
    /\ UNCHANGED <<beings, foods, stats, beings_copy, foods_copy, updates,
                   before, committed, lock>>

\* lines 479-487 of main: the guard lives to the end of the let statement
DrawStats ==
    /\ phase = "DrawStats"
    /\ lock = "DrawStats"
    /\ lock' = Release(lock)
    /\ phase' = "DrawFoods"
    /\ UNCHANGED <<beings, foods, stats, beings_copy, foods_copy, updates,
                   ticks, before, committed>>

\* lines 505-514 of main: the guard lives to the end of the closure, which
\* ends the iteration
DrawFoods ==
    /\ phase = "DrawFoods"
    /\ lock = "DrawFoods"
    /\ lock' = Release(lock)
    /\ phase' = "Idle"
    /\ ticks' = ticks + 1
    /\ UNCHANGED <<beings, foods, stats, beings_copy, foods_copy, updates,
                   before, committed>>

NextThreads ==
    \/ StartTick
    \/ RequestLock
    \/ SpawnCheck
    \/ SpawnPush
    \/ Snapshot
    \/ Fork
    \/ \E i \in 1..Len(updates) : Evaluate(i)
    \/ Join
    \/ CommitFoods
    \/ CommitBeings
    \/ Draw
    \/ DrawStats
    \/ DrawFoods

\* the main thread keeps running and the pool finishes every worker
SpecThreads ==
    InitThreads /\ [][NextThreads]_vars /\ WF_vars(NextThreads)

\* the parallel map has returned
Joined == phase \in {"CommitFoods", "CommitBeings", "Draw", "DrawStats",
                     "DrawFoods"} \/ Stepped

\* C16: whatever the order in which the workers ran, the collected results
\* stand in being order and each is a result of update for that being against
\* the snapshot alone, and the committed beings, food list and counters are
\* the ones the commit computes from these results.
C16_OrderInsensitive ==
    /\ Joined =>
          /\ Len(updates) = Len(beings_copy)
          /\ \A i \in 1..Len(updates) :
                updates[i] \in update(beings_copy[i], beings_copy, foods_copy)
    /\ phase = "CommitFoods" =>
          \A i \in 1..Len(updates) : beings[i] = updates[i].being
    /\ Stepped =>
          \E kept \in {SelectSeq(FlatMap(updates, 1, Len(updates)), Keep)} :
              /\ beings = [k \in 1..Min(Len(kept), MAX_BEINGS) |-> kept[k].b]
              /\ foods = RemoveAll(foods_copy, updates, 1, Len(updates))
              /\ stats.total_births - before.total_births = Births(updates)
              /\ stats.food_eaten - before.food_eaten = EatenCount(updates)
              /\ stats.total_deaths - before.total_deaths
                   = Len(updates) + Births(updates) - Len(kept)

\* C16, its case: a tick in which a later being was evaluated before an
\* earlier one, and the earlier one moved
C16_Witness ==
    /\ phase = "Evaluating"
    /\ Len(updates) > 1
    /\ updates[1] = None
    /\ IsSome(updates[2])
    /\ beings[2] # beings_copy[2]

\* C17: the food-list lock is never requested by the thread that holds it
\* and no guard outlives its statement, so every request is granted; every
\* tick that has begun comes back to Idle, and the only way there leads
\* through spawn, snapshot, evaluation and commit.
C17_NoDeadlock ==
    /\ [](phase # "Deadlocked" /\ (lock # Free => lock = phase))
    /\ [][phase' # phase =>
            <<phase, phase'>> \in
                {<<"Idle", "SpawnCheck">>, <<"SpawnCheck", "SpawnPush">>,
                 <<"SpawnCheck", "Snapshot">>, <<"SpawnPush", "Snapshot">>,
                 <<"Snapshot", "ParallelEvaluate">>,
                 <<"ParallelEvaluate", "Evaluating">>,
                 <<"Evaluating", "CommitFoods">>,
                 <<"CommitFoods", "CommitBeings">>,
                 <<"CommitBeings", "Draw">>, <<"Draw", "Idle">>,
                 <<"Draw", "DrawStats">>, <<"Draw", "DrawFoods">>,
                 <<"DrawStats", "DrawFoods">>, <<"DrawFoods", "Idle">>}]_vars
    /\ (phase # "Idle") ~> (phase = "Idle")

\* C17, its case: the last guard of an iteration is held, in a tick that
\* spawned food: the guards of the spawn, the snapshot and the commit were
\* taken and given back before
C17_Witness ==
    /\ phase = "DrawFoods"
    /\ lock = "DrawFoods"
    /\ foods_copy # << >>
    /\ foods_copy[Len(foods_copy)] \in FoodDraw
    /\ Len(updates) = Len(beings_copy)

\* ---- the choice of prey
\* the squared distance between the snapshot beings i and j
Apart(i, j) ==
    Dist2(beings_copy[i].x, beings_copy[i].y, beings_copy[j].x, beings_copy[j].y)

\* C19: a carnivore's target is the candidate with the least
\* squaredDistance * (1.1 - energy), and so no candidate with the target's
\* energy is closer and no candidate at the target's distance has more
\* energy, whatever energy the prey holds.
C19_CloserAndRicherPreferred ==
    Stepped =>
        \A i \in 1..Len(beings_copy) :
            beings_copy[i].being_type = Carnivore =>
                \A b \in {prologue(beings_copy[i])} :
                \A t \in {CarnivoreTarget(b, beings_copy)} :
                \A j \in potential_prey(b, beings_copy) :
                    /\ PairLeq(Weight(b, beings_copy[t]),
                               Weight(b, beings_copy[j]))
                    /\ beings_copy[j].energy = beings_copy[t].energy =>
                          Apart(i, t) <= Apart(i, j)
                    /\ Apart(i, j) = Apart(i, t) =>
                          beings_copy[t].energy >= beings_copy[j].energy

\* the snapshot beings the omnivore i may hunt: another species, below 0.9
\* of its size
HuntCandidates(i) ==
    {k \in 1..Len(beings_copy) :
        /\ beings_copy[k].being_type # beings_copy[i].being_type
        /\ 10 * size(beings_copy[k]) < 9 * size(beings_copy[i])}

\* squaredDistance * (1 + energy) of the snapshot being k seen from i, in
\* whole squared pixels (0 for a NaN)
WeightedApart(i, k) ==
    IF IsNaN(Apart(i, k)) THEN 0
    ELSE MulDiv(Apart(i, k), EnergyScale + beings_copy[k].energy, EnergyScale)
            \div (PosScale * PosScale)

\* the omnivores of the tick that captured prey
Hunters ==
    {i \in 1..Len(updates) :
        beings_copy[i].being_type = Omnivore /\ updates[i].captured # 0}

\* C20 as stated: the prey an omnivore hunts is the nearest of its
\* candidates by squared distance, whatever their energy.
C20_NearestHunted ==
    Stepped =>
        \A i \in Hunters :
            \A k \in HuntCandidates(i) :
                Apart(i, updates[i].captured) <= Apart(i, k)

\* C20, amended: the prey an omnivore hunts is the first of its candidates,
\* in being order, with the least squaredDistance * (1 + energy) in whole
\* squared pixels; it captures no other being.
C20_LeastWeightedHunted ==
    Stepped =>
        \A i \in 1..Len(beings_copy) :
            beings_copy[i].being_type = Omnivore =>
                \A t \in {OmnivoreTarget(prologue(beings_copy[i]), beings_copy)} :
                    /\ t = 0 <=> HuntCandidates(i) = {}
                    /\ updates[i].captured \in {0, t}
                    /\ t # 0 =>
                          /\ t \in HuntCandidates(i)
                          /\ \A k \in HuntCandidates(i) :
                                /\ WeightedApart(i, t) <= WeightedApart(i, k)
                                /\ k < t =>
                                      WeightedApart(i, t) < WeightedApart(i, k)

\* C20, its case: an omnivore captured a candidate although another one was
\* nearer
C20_Witness ==
    /\ Stepped
    /\ \E i \in Hunters :
          \E k \in HuntCandidates(i) :
              Apart(i, k) < Apart(i, updates[i].captured)

\* ---- the food search on a fine grid
\* The positions of the program are f64. The grid of a tenth of a pixel of
\* the worlds above is coarser than the key of the food search, which keeps
\* thousandths of a squared pixel; the search is therefore also run alone
\* on positions in hundredths of a pixel.
FineScale == 100

\* a herbivore in the middle of the window, in fine position units
Forager ==
    NewBeing(Herbivore, 400 * FineScale, 400 * FineScale, Tenths(9), 10,
             GeneSmall)

\* food 10 px, 10.00005 px, 10.0005 px and 5 px away and further, in fine
\* position units
ForageSpots ==
    {<<41000, 40000>>, <<41000, 40001>>, <<41000, 40010>>, <<39000, 40000>>,
     <<40000, 41001>>, <<40300, 40400>>}

ForageLists ==
    LET F == {NewFood(p[1], p[2], Tenths(4)) : p \in ForageSpots}
    IN  {<<a>> : a \in F} \cup (F \X F) \cup (F \X F \X F)

InitForage ==
    /\ beings = <<Forager>>
    /\ foods \in ForageLists
    /\ stats = EmptyStats
    /\ beings_copy = << >>
    /\ foods_copy = << >>
    /\ updates = << >>
    /\ phase = "Idle"
    /\ ticks = 0
    /\ before = Counters
    /\ committed = [origin |-> << >>, died |-> << >>, uncut |-> 0]
    /\ lock = Free

\* lines 110-114 of being.rs run against the snapshot: the index the search
\* of update_herbivore returns
Forage ==
    /\ phase = "Idle"
    /\ beings_copy' = beings
    /\ foods_copy' = foods
    /\ updates' = <<[target |-> NearestFoodAt(FineScale, beings[1], foods)]>>
    /\ phase' = "Foraged"
    /\ UNCHANGED <<beings, foods, stats, ticks, before, committed, lock>>

SpecForage == InitForage /\ [][Forage]_vars

\* the squared distance from the forager to food k of the snapshot
FoodApart(k) ==
    Dist2(beings_copy[1].x, beings_copy[1].y, foods_copy[k].x, foods_copy[k].y)

\* C21: the herbivore's target is a food item of the snapshot of least
\* squared distance to it, and of several items at that least distance it
\* is the one of the earliest index.
C21_NearestFoodFirst ==
    phase = "Foraged" =>
        \E t \in {updates[1].target} :
            /\ t \in 1..Len(foods_copy)
            /\ \A k \in 1..Len(foods_copy) :
                  /\ FoodApart(t) <= FoodApart(k)
                  /\ (k < t => FoodApart(t) < FoodApart(k))

\* ---- food and energy
\* an energy in thousandths, rounded down (the sums below stay in 32 bits)
Milli(e) == e \div (EnergyScale \div 1000)

\* the results that report snapshot food k as eaten
EatersOf(k) ==
    {i \in 1..Len(updates) :
        \E n \in 1..Len(updates[i].eaten_food_indices) :
            updates[i].eaten_food_indices[n] = k}

\* lines 125 and 231 of being.rs: the energy result i was credited for food
FoodCredit(i) == EnergyBeforeReproduction(i) - prologue(beings_copy[i]).energy

\* the energy of the food the commit of the tick took off the list
RemovedFoodEnergy ==
    Sum([k \in 1..Len(foods_copy) |-> Milli(foods_copy[k].energy)],
        1, Len(foods_copy))
    - Sum([k \in 1..Len(foods) |-> Milli(foods[k].energy)], 1, Len(foods))

\* C22: in a tick no food item of the snapshot is consumed by more than one
\* being, and the energy the beings gained from food is at most the energy
\* of the food items the commit removed.
C22_FoodConsumedOnce ==
    Stepped =>
        /\ \A k \in 1..Len(foods_copy) : Cardinality(EatersOf(k)) <= 1
        /\ Sum([i \in 1..Len(updates) |-> Milli(FoodCredit(i))],
               1, Len(updates)) <= RemovedFoodEnergy

\* ---- the accounts of a tick
\* C23: after a tick the population as the commit leaves it before the cut
\* to MAX_BEINGS is the population before the tick plus the births the tick
\* counted less the deaths it counted; the beings the cut removes are in no
\* counter.
C23_PopulationAccounting ==
    Stepped =>
        /\ committed.uncut
             = Len(beings_copy) + (stats.total_births - before.total_births)
               - (stats.total_deaths - before.total_deaths)
        /\ Len(beings) = Min(committed.uncut, MAX_BEINGS)
        /\ stats.total_deaths - before.total_deaths = Len(committed.died)

\* C23, its case: a tick with a birth whose commit cut the population down
\* to MAX_BEINGS
C23_Witness ==
    /\ Stepped
    /\ stats.total_births > before.total_births
    /\ committed.uncut > MAX_BEINGS
    /\ Len(beings) = MAX_BEINGS

\* C24: in every tick the food-eaten counter rises by the number of items
\* the commit took off the food list, so that the counter is the number of
\* items removed since the start.
C24_FoodEatenIsRemoved ==
    Stepped =>
        stats.food_eaten - before.food_eaten = Len(foods_copy) - Len(foods)

\* ---- extinction
\* the beings that do not outlive their next tick unless they feed: the
\* starved and the ones at their maximal age
Doomed == Starved \cup {a \in Actors : a.age = a.max_age}

\* worlds whose population can be gone after the first tick: a doomed being
\* alone, with little food and with the food list below and at its cap, and
\* two doomed beings
DoomedWorlds ==
    {[beings |-> <<z>>, foods |-> fs] :
        z \in Doomed,
        fs \in LoneFoodLists \cup {Copies(n, FillerFood) :
                                     n \in {MAX_FOOD - 1, MAX_FOOD}}}
    \cup {[beings |-> <<y, z>>, foods |-> << >>] : y \in Starved, z \in Doomed}

InitExtinct ==
    /\ \E w \in DoomedWorlds : beings = w.beings /\ foods = w.foods
    /\ stats = EmptyStats
    /\ beings_copy = << >>
    /\ foods_copy = << >>
    /\ updates = << >>
    /\ phase = "Idle"
    /\ ticks = 0
    /\ before = Counters
    /\ committed = [origin |-> << >>, died |-> << >>, uncut |-> 0]
    /\ lock = Free

\* the loop of main, run for one iteration more than in Spec: the tick of
\* the extinction and the ticks after it
NextExtinct == BeginTickOf(MaxTicks + 1) \/ ParallelUpdate \/ Commit

SpecExtinct == InitExtinct /\ [][NextExtinct]_vars

\* C25: once the being collection is empty it stays empty in every later
\* step, the birth and the death counter keep their values, and the food
\* list loses nothing and gains an item only while it is below MAX_FOOD.
C25_ExtinctionAbsorbing ==
    [][beings = << >> =>
          /\ beings' = << >>
          /\ stats'.total_births = stats.total_births
          /\ stats'.total_deaths = stats.total_deaths
          /\ Len(foods') \in {Len(foods), Len(foods) + 1}
          /\ \A k \in 1..Len(foods) : foods'[k] = foods[k]
          /\ Len(foods') > Len(foods) => Len(foods) < MAX_FOOD]_vars

\* C25, its case: a whole tick was run on the empty collection after the
\* tick in which the last being died, and food was spawned in it
C25_Witness ==
    /\ phase = "Idle"
    /\ ticks = MaxTicks + 1
    /\ beings = << >>
    /\ beings_copy = << >>
    /\ updates = << >>
    /\ stats.total_deaths > 0
    /\ foods_copy # << >>
    /\ foods_copy[Len(foods_copy)] \in FoodDraw
    /\ foods = foods_copy

=============================================================================
